---------------------------- MODULE Spec2Model ----------------------------
(***************************************************************************)
(* Model of scraper.py: the substring extractor, the section locator, the  *)
(* field parsers, the page fetch, the record assembler and the scanning    *)
(* driver.                                                                 *)
(*                                                                         *)
(* Text is a sequence of symbols.  A symbol is a run of characters that    *)
(* the modelled inputs never break up: a single character ("a", "1"), or a *)
(* literal of the page template ("&nbsp;", "Program Name:").  Every        *)
(* delimiter of the program is a sequence of such symbols, so a substring  *)
(* match in the text is a match of sub-sequences.                          *)
(***************************************************************************)
EXTENDS Integers, Sequences, FiniteSets, TLC

VARIABLES
    source,             \* argument `source` / `page_source` of the call
    before,             \* argument `before`
    after,              \* argument `after`
    instance,           \* argument `instance`
    section_number,     \* argument `section_number`
    bolded,             \* the bolded values the compensation section was built from
    ret,                \* outcome of the last call: [op, kind, value]
    site,               \* what the web site does for each identifier (cyclic)
    id_,                \* loop variable of scrape()
    all_residency_info, \* the list scrape() builds
    printed,            \* the outcome tags scrape() printed, one per identifier
    fetched,            \* the identifiers requests.get was called for, in order
    pc,                 \* position of main(): "main", "loop", "csv", "done", "aborted"
    csvfile             \* rows written to residency_info.csv

vars == <<source, before, after, instance, section_number, bolded, ret,
          site, id_, all_residency_info, printed, fetched, pc, csvfile>>

-----------------------------------------------------------------------------
(* Bounds of the model *)

MaxLen == 4
MaxDelim == 2
MaxInstance == 2

Alphabet == {"a", "b", "c"}
DelimAlphabet == {"a", "b"}

Strings(alphabet, n) == UNION {[1..k -> alphabet] : k \in 0..n}

-----------------------------------------------------------------------------
(* Python built-ins used by the program *)

Min(S) == CHOOSE x \in S : \A y \in S : x <= y

\* positions where pat occurs in s as a contiguous run
Occurrences(s, pat) ==
    {i \in 1..(Len(s) - Len(pat) + 1) :
        /\ s[i] = pat[1]
        /\ SubSeq(s, i, i + Len(pat) - 1) = pat}

\* `pat in s` of Python, for str
Contains(s, pat) == pat = <<>> \/ Occurrences(s, pat) # {}

RECURSIVE SplitPoints(_, _, _)
\* start positions of the separators str.split cuts at: leftmost first,
\* each next one searched for after the end of the previous one
SplitPoints(occ, seplen, from) ==
    LET later == {i \in occ : i >= from}
    IN  IF later = {} THEN <<>>
        ELSE <<Min(later)>> \o SplitPoints(occ, seplen, Min(later) + seplen)

\* s.split(sep) for a non-empty sep (an empty sep raises ValueError, which
\* the callers below turn into their own outcome)
str_split(s, sep) ==
    LET cuts == SplitPoints(Occurrences(s, sep), Len(sep), 1)
        n == Len(cuts)
    IN  [k \in 1..(n + 1) |->
            SubSeq(s,
                   IF k = 1 THEN 1 ELSE cuts[k - 1] + Len(sep),
                   IF k = n + 1 THEN Len(s) ELSE cuts[k] - 1)]

\* list[i] of Python: 0-based, negative indices count from the end
InRange(list, i) == i < Len(list) /\ i >= 0 - Len(list)
list_index(list, i) == IF i >= 0 THEN list[i + 1] ELSE list[Len(list) + i + 1]

RECURSIVE Flatten(_)
Flatten(seqs) == IF seqs = <<>> THEN <<>> ELSE Head(seqs) \o Flatten(Tail(seqs))

DigitChars == <<"0", "1", "2", "3", "4", "5", "6", "7", "8", "9">>

RECURSIVE IntToStr(_)
\* '{}'.format(n) for an int n >= 0
IntToStr(n) ==
    IF n < 10 THEN <<DigitChars[n + 1]>>
    ELSE IntToStr(n \div 10) \o <<DigitChars[(n % 10) + 1]>>

-----------------------------------------------------------------------------
(* Outcomes of a call: a returned value or a raised exception *)

Return(v) == [kind |-> "ok", value |-> v]
Raise(exc, args) == [kind |-> exc, value |-> args]
NoCall == [op |-> "none", kind |-> "none", value |-> <<>>]
Called(op, r) == [op |-> op, kind |-> r.kind, value |-> r.value]

-----------------------------------------------------------------------------
(* Fragment extractor *)

\* faulty variant: the index is taken 0-based, so instance 1 selects the text before
\* the first `before`
scrape_item_between_ZeroBased(src, bef, aft, inst) ==
    IF bef = <<>> THEN Raise("ValueError", <<>>)
    ELSE LET pieces == str_split(src, bef)
         IN  IF ~InRange(pieces, inst - 1) THEN Raise("ScrapingError", <<bef, aft>>)
             ELSE IF aft = <<>> THEN Raise("ValueError", <<>>)
             ELSE Return(str_split(list_index(pieces, inst - 1), aft)[1])

\* source.split(before)[instance].split(after)[0]; IndexError becomes
\* ScrapingError, the ValueError of an empty separator is not caught
scrape_item_between(src, bef, aft, inst) ==
    IF bef = <<>> THEN Raise("ValueError", <<>>)
    ELSE LET pieces == str_split(src, bef)
         IN  IF ~InRange(pieces, inst) THEN Raise("ScrapingError", <<bef, aft>>)
             ELSE IF aft = <<>> THEN Raise("ValueError", <<>>)
             ELSE Return(str_split(list_index(pieces, inst), aft)[1])

\* faulty variant: the text is not reset when the strict extraction raises
safe_scrape_item_between_NoCatch(src, bef, aft, inst) ==
    scrape_item_between(src, bef, aft, inst)

\* text = ''; try strict extraction; except ScrapingError: pass; return text
safe_scrape_item_between(src, bef, aft, inst) ==
    LET r == scrape_item_between(src, bef, aft, inst)
    IN  IF r.kind = "ScrapingError" THEN Return(<<>>) ELSE r

-----------------------------------------------------------------------------
(* Section locator and field parsers *)

NBSP == <<"&nbsp;">>
BOLD == <<"<", "span class=\"bold\">">>
CLOSE == <<"<", "/span>">>

\* '{}.&nbsp;'.format(section_number)
SectionMarker(n) == IntToStr(n) \o <<".">> \o NBSP

scrape_section(src, n) ==
    scrape_item_between(src, SectionMarker(n), SectionMarker(n + 1), 1)

scrape_name(src) ==
    safe_scrape_item_between(src, <<"Program Name:">> \o NBSP \o BOLD, CLOSE, 1)

scrape_state(src) ==
    safe_scrape_item_between(src,
        NBSP \o <<"State/Providence:">> \o NBSP \o BOLD, CLOSE, 1)

scrape_city(src) ==
    safe_scrape_item_between(src, <<"City:">> \o NBSP \o BOLD, CLOSE, 1)

\* the bolded values of a located section at the given instances, each
\* safe_scrape_item_between(section, before, after, instance=...); the
\* failure to locate the section when scrape_section raised
BoldedValues(section, instances) ==
    IF section.kind # "ok" THEN section
    ELSE Return([k \in 1..Len(instances) |->
                    safe_scrape_item_between(section.value, BOLD, CLOSE,
                                             instances[k]).value])

\* faulty variant: the four salaries are taken from consecutive bolded values
scrape_salary_Consecutive(src) == BoldedValues(scrape_section(src, 10), <<1, 2, 3, 4>>)

scrape_salary(src) == BoldedValues(scrape_section(src, 10), <<1, 3, 5, 7>>)

scrape_pto(src) == BoldedValues(scrape_section(src, 10), <<2, 4, 6, 8>>)

scrape_avg_step_score(src) == BoldedValues(scrape_section(src, 19), <<1, 2>>)

scrape_min_step_score(src) == BoldedValues(scrape_section(src, 27), <<2, 3>>)

\* ResidentDemographics(total=..., female=..., male=...)
ResidentDemographics(values) ==
    IF values.kind # "ok" THEN values
    ELSE Return([total |-> values.value[1],
                 female |-> values.value[2],
                 male |-> values.value[3]])

scrape_resident_demographics(src) ==
    ResidentDemographics(BoldedValues(scrape_section(src, 17), <<1, 3, 4>>))

scrape_last_updated(src) ==
    safe_scrape_item_between(src, <<"Last Updated: ">> \o BOLD, <<"<">>, 1)

-----------------------------------------------------------------------------
(* Pages in the form of the directory: optional labelled spans, numbered   *)
(* sections holding bolded values                                          *)

Values == {<<>>, <<"50000">>, <<"10">>}
Labels == {"name", "state", "city", "last_updated"}
Markers == {10, 11, 17, 18, 19, 20, 27, 28}

Span(v) == <<"label: ">> \o BOLD \o v \o CLOSE
Spans(vals) == Flatten([k \in 1..Len(vals) |-> Span(vals[k])])
Mark(markers, n) == IF n \in markers THEN SectionMarker(n) ELSE <<>>

SampleCompensation ==
    <<<<"50000">>, <<"10">>, <<"52000">>, <<"12">>,
      <<"54000">>, <<"14">>, <<"56000">>, <<"16">>>>

FullDetails ==
    [demographics |-> <<<<"24">>, <<"n/a">>, <<"20">>, <<"4">>>>,
     avg_scores |-> <<<<"230">>, <<"240">>>>,
     min_scores |-> <<<<"Yes">>, <<"200">>, <<"210">>>>]
BriefDetails ==
    [demographics |-> <<<<"24">>>>, avg_scores |-> <<>>, min_scores |-> <<>>]

PageText(labels, markers, compensation, details, name) ==
    (IF "name" \in labels
        THEN <<"Program Name:">> \o NBSP \o BOLD \o name \o CLOSE ELSE <<>>)
    \o (IF "state" \in labels
        THEN NBSP \o <<"State/Providence:">> \o NBSP \o BOLD \o <<"CA">> \o CLOSE
        ELSE <<>>)
    \o (IF "city" \in labels
        THEN <<"City:">> \o NBSP \o BOLD \o <<"Los Angeles">> \o CLOSE ELSE <<>>)
    \o Mark(markers, 10) \o Spans(compensation)
    \o Mark(markers, 11) \o <<"other sections">>
    \o Mark(markers, 17) \o Spans(details.demographics)
    \o Mark(markers, 18) \o <<"text">>
    \o Mark(markers, 19) \o Spans(details.avg_scores)
    \o Mark(markers, 20) \o <<"other sections">>
    \o Mark(markers, 27) \o Spans(details.min_scores)
    \o Mark(markers, 28) \o <<"text">>
    \o (IF "last_updated" \in labels
        THEN <<"Last Updated: ">> \o BOLD \o <<"2015-01-01">> \o CLOSE ELSE <<>>)

\* the page of the directory entry with identifier id
EntryPage(markers, id) ==
    PageText(Labels, markers, <<>>, BriefDetails, <<"Program ">> \o IntToStr(id))

-----------------------------------------------------------------------------
(* Page fetch *)

OK == 200

NotAuthorized == <<"Not", " ", "Authorized">>

\* exceptions of requests that are requests.ConnectionError or derive from it
ConnectionErrors == {"ConnectionError", "ConnectTimeout"}
\* other exceptions requests.get raises
OtherRequestErrors == {"ReadTimeout", "TooManyRedirects"}

Response(status, text) == [kind |-> "response", status_code |-> status, text |-> text]
Failure(exc) == [kind |-> exc, status_code |-> 0, text |-> <<>>]

\* what the site does for the request of identifier id: the site repeats
\* its Len(web) behaviours cyclically over the identifiers; a behaviour is a
\* reply, or a directory entry, whose page names the identifier
requests_get(web, id) ==
    LET behaviour == web[((id - 1) % Len(web)) + 1]
    IN  IF behaviour.kind = "entry" THEN Response(OK, EntryPage(Markers, id))
        ELSE IF behaviour.kind = "entry without section 27"
             THEN Response(OK, EntryPage(Markers \ {27}, id))
        ELSE behaviour

\* faulty variant: the body is not scanned for the marker
scrape_page_NoAuthScan(web, id) ==
    LET resp == requests_get(web, id)
    IN  IF resp.kind \in ConnectionErrors THEN Raise("ScrapingError", <<"ConnectionError">>)
        ELSE IF resp.kind # "response" THEN Raise(resp.kind, <<>>)
        ELSE IF resp.status_code # OK
             THEN Raise("ScrapingError", <<"Status code">> \o IntToStr(resp.status_code))
        ELSE Return(resp.text)

scrape_page(web, id) ==
    LET resp == requests_get(web, id)
    IN  IF resp.kind \in ConnectionErrors THEN Raise("ScrapingError", <<"ConnectionError">>)
        ELSE IF resp.kind # "response" THEN Raise(resp.kind, <<>>)
        ELSE IF resp.status_code # OK
             THEN Raise("ScrapingError", <<"Status code">> \o IntToStr(resp.status_code))
        ELSE IF Contains(resp.text, NotAuthorized) THEN Raise("AuthError", <<>>)
        ELSE Return(resp.text)

-----------------------------------------------------------------------------
(* Record assembler *)

\* ResidencyInfo(name=..., ...): the arguments are evaluated in the order
\* written and the first exception ends the call
ResidencyInfo(name, state, city, salary, pto, min_step_scores, avg_step_scores, resident_demographics, last_updated) ==
    IF name.kind # "ok" THEN name
    ELSE IF state.kind # "ok" THEN state
    ELSE IF city.kind # "ok" THEN city
    ELSE IF salary.kind # "ok" THEN salary
    ELSE IF pto.kind # "ok" THEN pto
    ELSE IF min_step_scores.kind # "ok" THEN min_step_scores
    ELSE IF avg_step_scores.kind # "ok" THEN avg_step_scores
    ELSE IF resident_demographics.kind # "ok" THEN resident_demographics
    ELSE IF last_updated.kind # "ok" THEN last_updated
    ELSE Return([name |-> name.value,
                 state |-> state.value,
                 city |-> city.value,
                 salary |-> salary.value,
                 pto |-> pto.value,
                 min_step_scores |-> min_step_scores.value,
                 avg_step_scores |-> avg_step_scores.value,
                 resident_demographics |-> resident_demographics.value,
                 last_updated |-> last_updated.value])

\* the body of get_residency_info once scrape_page has ended
AssembleFrom(page) ==
    IF page.kind # "ok" THEN page
    ELSE ResidencyInfo(scrape_name(page.value),
                       scrape_state(page.value),
                       scrape_city(page.value),
                       scrape_salary(page.value),
                       scrape_pto(page.value),
                       scrape_min_step_score(page.value),
                       scrape_avg_step_score(page.value),
                       scrape_resident_demographics(page.value),
                       scrape_last_updated(page.value))

get_residency_info(web, id) == AssembleFrom(scrape_page(web, id))

-----------------------------------------------------------------------------
(* Driver *)

LAST_ID == 287

\* faulty variant: a read timeout is reported like a scraping error
scrape_outcome_TimeoutFails(r) ==
    IF r.kind = "ok" THEN "SUCCESS"
    ELSE IF r.kind = "AuthError" THEN "SKIP"
    ELSE IF r.kind \in {"ScrapingError", "ReadTimeout"} THEN "FAIL"
    ELSE "RAISE"

\* the branch of the try statement of scrape() that a call of
\* get_residency_info ends in; "RAISE": no except clause matches
scrape_outcome(r) ==
    IF r.kind = "ok" THEN "SUCCESS"
    ELSE IF r.kind \in {"AuthError", "ReadTimeout"} THEN "SKIP"
    ELSE IF r.kind = "ScrapingError" THEN "FAIL"
    ELSE "RAISE"

\* faulty variant: the new record is put in front
list_append_Front(list, x) == <<x>> \o list

\* list.append(x)
list_append(list, x) == Append(list, x)

headers ==
    <<"Name", "State", "City",
      "Salary PG1", "Salary PG2", "Salary PG3", "Salary PG4",
      "PTO PG1", "PTO PG2", "PTO PG3", "PTO PG4",
      "Min Step 1 Score", "Min Step 2 Score",
      "Avg. Step 1 Score", "Avg. Step 2 Score",
      "Residents (Total)", "Residents (Male)", "Residents (Female)",
      "Last Updated">>

\* one row of the file; unicode(s).encode("utf-8") keeps each symbol, which
\* stands for its own UTF-8 bytes
row(info) ==
    <<info.name, info.state, info.city,
      info.salary[1], info.salary[2], info.salary[3], info.salary[4],
      info.pto[1], info.pto[2], info.pto[3], info.pto[4],
      info.min_step_scores[1], info.min_step_scores[2],
      info.avg_step_scores[1], info.avg_step_scores[2],
      info.resident_demographics.total, info.resident_demographics.male,
      info.resident_demographics.female, info.last_updated>>

generate_csv(residency_programs) ==
    <<headers>> \o [k \in 1..Len(residency_programs) |-> row(residency_programs[k])]

-----------------------------------------------------------------------------
(* Specification of the fragment extractor: any source, delimiters, instance *)

Idle ==
    /\ site = <<>>
    /\ id_ = 0
    /\ all_residency_info = <<>>
    /\ printed = <<>>
    /\ fetched = <<>>
    /\ pc = "idle"
    /\ csvfile = <<>>

InitExtract ==
    /\ source \in Strings(Alphabet, MaxLen)
    /\ before \in Strings(DelimAlphabet, MaxDelim)
    /\ after \in Strings(DelimAlphabet, MaxDelim)
    /\ instance \in (0 - 1)..MaxInstance
    /\ section_number = 0
    /\ bolded = <<>>
    /\ ret = NoCall
    /\ Idle

CallStrict ==
    /\ ret = NoCall
    /\ ret' = Called("scrape_item_between",
                     scrape_item_between(source, before, after, instance))
    /\ UNCHANGED <<source, before, after, instance, section_number, bolded,
                   site, id_, all_residency_info, printed, fetched, pc, csvfile>>

CallSafe ==
    /\ ret = NoCall
    /\ ret' = Called("safe_scrape_item_between",
                     safe_scrape_item_between(source, before, after, instance))
    /\ UNCHANGED <<source, before, after, instance, section_number, bolded,
                   site, id_, all_residency_info, printed, fetched, pc, csvfile>>

NextExtract == CallStrict \/ CallSafe

SpecExtract == InitExtract /\ [][NextExtract]_vars

-----------------------------------------------------------------------------
(* Specification of the section locator: sources made of digits, the       *)
(* separator token and other text                                          *)

MaxChunks == 7

Chunks == {<<"1">>, <<"0">>, <<".">> \o NBSP, <<"x">>}
SectionNumbers == {0, 10}

InitSection ==
    /\ source \in {Flatten(c) : c \in Strings(Chunks, MaxChunks)}
    /\ section_number \in SectionNumbers
    /\ before = <<>>
    /\ after = <<>>
    /\ instance = 1
    /\ bolded = <<>>
    /\ ret = NoCall
    /\ Idle

CallSection ==
    /\ ret = NoCall
    /\ ret' = Called("scrape_section", scrape_section(source, section_number))
    /\ UNCHANGED <<source, before, after, instance, section_number, bolded,
                   site, id_, all_residency_info, printed, fetched, pc, csvfile>>

NextSection == CallSection

SpecSection == InitSection /\ [][NextSection]_vars

-----------------------------------------------------------------------------
(* Specification of the page fetch: one request, any behaviour of the site *)

MaxBody == 4

StatusCodes == {OK, 403, 404, 500}
BodyAlphabet == {"Not", " ", "Authorized", "x"}
Replies ==
    {Failure(e) : e \in ConnectionErrors \cup OtherRequestErrors}
    \cup {Response(st, text) : st \in StatusCodes, text \in Strings(BodyAlphabet, MaxBody)}

InitPage ==
    /\ site \in {<<r>> : r \in Replies}
    /\ id_ \in 1..2
    /\ source = <<>>
    /\ before = <<>>
    /\ after = <<>>
    /\ instance = 1
    /\ section_number = 0
    /\ bolded = <<>>
    /\ ret = NoCall
    /\ all_residency_info = <<>>
    /\ printed = <<>>
    /\ fetched = <<>>
    /\ pc = "idle"
    /\ csvfile = <<>>

CallPage ==
    /\ ret = NoCall
    /\ ret' = Called("scrape_page", scrape_page(site, id_))
    /\ UNCHANGED <<source, before, after, instance, section_number, bolded,
                   site, id_, all_residency_info, printed, fetched, pc, csvfile>>

NextPage == CallPage

SpecPage == InitPage /\ [][NextPage]_vars

-----------------------------------------------------------------------------
(* Specification of the record assembler: one page, fetched and parsed *)

MaxBolded == 8

InitRecord ==
    /\ \/ /\ bolded \in Strings(Values, MaxBolded)
          /\ source = PageText(Labels, Markers, bolded, FullDetails, <<"Example Program">>)
       \/ /\ bolded \in {<<>>, SampleCompensation}
          /\ \E labels \in SUBSET Labels, markers \in SUBSET Markers :
                source = PageText(labels, markers, bolded, FullDetails,
                                  <<"Example Program">>)
    /\ site = <<Response(OK, source)>>
    /\ id_ = 1
    /\ before = <<>>
    /\ after = <<>>
    /\ instance = 1
    /\ section_number = 0
    /\ ret = NoCall
    /\ all_residency_info = <<>>
    /\ printed = <<>>
    /\ fetched = <<>>
    /\ pc = "idle"
    /\ csvfile = <<>>

CallSalary ==
    /\ ret = NoCall
    /\ ret' = Called("scrape_salary", scrape_salary(source))
    /\ UNCHANGED <<source, before, after, instance, section_number, bolded,
                   site, id_, all_residency_info, printed, fetched, pc, csvfile>>

CallPto ==
    /\ ret = NoCall
    /\ ret' = Called("scrape_pto", scrape_pto(source))
    /\ UNCHANGED <<source, before, after, instance, section_number, bolded,
                   site, id_, all_residency_info, printed, fetched, pc, csvfile>>

CallResidencyInfo ==
    /\ ret = NoCall
    /\ ret' = Called("get_residency_info", get_residency_info(site, id_))
    /\ UNCHANGED <<source, before, after, instance, section_number, bolded,
                   site, id_, all_residency_info, printed, fetched, pc, csvfile>>

NextRecord == CallSalary \/ CallPto \/ CallResidencyInfo

SpecRecord == InitRecord /\ [][NextRecord]_vars

-----------------------------------------------------------------------------
(* Specification of the run: main() scanning the identifiers of a site *)

Period == 3

\* the behaviours a site mixes: the three outcomes of a well-behaved scan,
\* the timeouts, and the other failures
Outcomes == {Failure("ConnectionError"), Response(OK, NotAuthorized), Failure("entry")}
Timeouts ==
    {Failure("ReadTimeout"), Failure("ConnectTimeout"),
     Response(OK, NotAuthorized), Failure("entry")}
OtherFailures ==
    {Failure("TooManyRedirects"), Response(500, <<"Internal Server Error">>),
     Failure("entry without section 27"), Failure("entry")}
BehaviourGroups == {Outcomes, Timeouts, OtherFailures}

InitRun ==
    /\ \E group \in BehaviourGroups : site \in [1..Period -> group]
    /\ id_ = 0
    /\ all_residency_info = <<>>
    /\ printed = <<>>
    /\ fetched = <<>>
    /\ pc = "main"
    /\ csvfile = <<>>
    /\ source = <<>>
    /\ before = <<>>
    /\ after = <<>>
    /\ instance = 1
    /\ section_number = 0
    /\ bolded = <<>>
    /\ ret = NoCall

\* main() calls scrape(): all_residency_info = []
CallScrape ==
    /\ pc = "main"
    /\ all_residency_info' = <<>>
    /\ id_' = 1
    /\ pc' = "loop"
    /\ UNCHANGED <<source, before, after, instance, section_number, bolded, ret,
                   site, printed, fetched, csvfile>>

\* the try statement of the loop body, get_residency_info having ended as r
TryAppend(r) ==
    /\ ret' = Called("get_residency_info", r)
    /\ all_residency_info' =
         IF scrape_outcome(r) = "SUCCESS" THEN list_append(all_residency_info, r.value)
         ELSE all_residency_info
    /\ printed' = IF scrape_outcome(r) = "RAISE" THEN printed
                  ELSE Append(printed, scrape_outcome(r))
    /\ id_' = IF scrape_outcome(r) = "RAISE" THEN id_ ELSE id_ + 1
    /\ pc' = IF scrape_outcome(r) = "RAISE" THEN "aborted" ELSE "loop"

\* one pass of the body of the for loop of scrape(); an exception that no
\* except clause matches leaves scrape() and main()
ScrapeId ==
    /\ pc = "loop"
    /\ id_ < LAST_ID
    /\ fetched' = Append(fetched, id_)
    /\ TryAppend(get_residency_info(site, id_))
    /\ UNCHANGED <<source, before, after, instance, section_number, bolded,
                   site, csvfile>>

\* range(1, LAST_ID) is exhausted: scrape() returns the list to main()
ScrapeReturn ==
    /\ pc = "loop"
    /\ id_ = LAST_ID
    /\ pc' = "csv"
    /\ UNCHANGED <<source, before, after, instance, section_number, bolded, ret,
                   site, id_, all_residency_info, printed, fetched, csvfile>>

\* main() hands the list scrape() returned to generate_csv()
GenerateCsv ==
    /\ pc = "csv"
    /\ csvfile' = generate_csv(all_residency_info)
    /\ pc' = "done"
    /\ UNCHANGED <<source, before, after, instance, section_number, bolded, ret,
                   site, id_, all_residency_info, printed, fetched>>

NextRun == CallScrape \/ ScrapeId \/ ScrapeReturn \/ GenerateCsv

SpecRun == InitRun /\ [][NextRun]_vars

-----------------------------------------------------------------------------
(* What the extractor is specified to compute, stated on positions of the  *)
(* source instead of on the pieces of a split                              *)

\* first position >= from where pat occurs in s, 0 when there is none
Find(s, pat, from) ==
    LET later == {i \in Occurrences(s, pat) : i >= from}
    IN  IF later = {} THEN 0 ELSE Min(later)

RECURSIVE NthOccurrence(_, _, _)
\* position of the n-th occurrence of pat, counted left to right without
\* overlap, 0 when there are fewer than n
NthOccurrence(s, pat, n) ==
    IF n = 1 THEN Find(s, pat, 1)
    ELSE LET p == NthOccurrence(s, pat, n - 1)
         IN  IF p = 0 THEN 0 ELSE Find(s, pat, p + Len(pat))

\* first position after the n-th occurrence of pat
AfterNth(s, pat, n) == NthOccurrence(s, pat, n) + Len(pat)

\* the text from the n-th occurrence of pat up to the next occurrence of pat,
\* or to the end of the source
SelectedSegment(s, pat, n) ==
    LET start == AfterNth(s, pat, n)
        nxt == Find(s, pat, start)
    IN  SubSeq(s, start, IF nxt = 0 THEN Len(s) ELSE nxt - 1)

\* the text strictly between the n-th bef and the first aft that follows it
Between(s, bef, aft, n) ==
    SubSeq(s, AfterNth(s, bef, n), Find(s, aft, AfterNth(s, bef, n)) - 1)

StrictCall ==
    /\ ret.op = "scrape_item_between"
    /\ instance >= 1
    /\ before # <<>>
    /\ after # <<>>

\* C2: strict extraction raises the extraction error whenever the source has
\* fewer than `instance` occurrences of `before`, and whenever `after` does
\* not occur in the segment selected after that occurrence.
C2_InvalidInputFails ==
    (/\ StrictCall
     /\ \/ NthOccurrence(source, before, instance) = 0
        \/ ~Contains(SelectedSegment(source, before, instance), after))
    => ret.kind = "ScrapingError"

\* C3 as claimed: whenever the source has `instance` occurrences of `before`
\* and `after` occurs somewhere after the instance-th one, strict extraction
\* returns the text strictly between that `before` and the first `after`
\* that follows it.
C3_BetweenAnyFollowingAfter ==
    (/\ StrictCall
     /\ NthOccurrence(source, before, instance) # 0
     /\ Find(source, after, AfterNth(source, before, instance)) # 0)
    => /\ ret.kind = "ok"
       /\ ret.value = Between(source, before, after, instance)

\* C3 amended: for non-empty delimiters, whenever the source has `instance`
\* occurrences of `before` and `after` occurs in the selected segment (after
\* the instance-th `before` and before the next occurrence of `before`),
\* strict extraction returns the text strictly between that `before` and
\* the first `after` that follows it.
C3_BetweenWithinSegment ==
    (/\ StrictCall
     /\ NthOccurrence(source, before, instance) # 0
     /\ Contains(SelectedSegment(source, before, instance), after))
    => /\ ret.kind = "ok"
       /\ ret.value = Between(source, before, after, instance)

\* a second occurrence is selected and a non-empty text comes back
C3_Witness ==
    /\ StrictCall
    /\ instance = 2
    /\ NthOccurrence(source, before, instance) # 0
    /\ Contains(SelectedSegment(source, before, instance), after)
    /\ ret.kind = "ok"
    /\ ret.value # <<>>

SafeCall == ret.op = "safe_scrape_item_between"

SafeAgreesWithStrict ==
    LET r == scrape_item_between(source, before, after, instance)
    IN  /\ ret.kind = "ok"
        /\ r.kind = "ok" => ret.value = r.value
        /\ r.kind # "ok" => ret.value = <<>>

-----------------------------------------------------------------------------
(* Section locator *)

SectionCall == ret.op = "scrape_section"

\* the marker of section n occurs, and the marker of section n + 1 occurs
\* after its first occurrence
SectionLocated(s, n) ==
    /\ NthOccurrence(s, SectionMarker(n), 1) # 0
    /\ Find(s, SectionMarker(n + 1), AfterNth(s, SectionMarker(n), 1)) # 0

\* C5: section extraction fails for every source that lacks the marker of
\* section N or the marker of section N+1, and returns the text strictly
\* between the two markers for every source that holds both.
C5_SectionOrFailure ==
    SectionCall =>
        /\ (\/ ~Contains(source, SectionMarker(section_number))
            \/ ~Contains(source, SectionMarker(section_number + 1)))
           => ret.kind = "ScrapingError"
        /\ SectionLocated(source, section_number)
           => /\ ret.kind = "ok"
              /\ ret.value = Between(source, SectionMarker(section_number),
                                     SectionMarker(section_number + 1), 1)

-----------------------------------------------------------------------------
(* Page fetch *)

PageCall == ret.op = "scrape_page"
TheReply == requests_get(site, id_)

\* C1 as claimed: a response whose body holds "Not Authorized" anywhere makes
\* scrape_page raise AuthError, whatever the status code of the response.
C1_AuthErrorAnyStatus ==
    (/\ PageCall
     /\ TheReply.kind = "response"
     /\ Contains(TheReply.text, NotAuthorized))
    => ret.kind = "AuthError"

\* C1 amended: a response with the success status (200) whose body holds
\* "Not Authorized" anywhere makes scrape_page raise AuthError; with any
\* other status scrape_page raises ScrapingError, whatever the body holds.
C1_AuthErrorOnSuccessStatus ==
    (PageCall /\ TheReply.kind = "response")
    => /\ (TheReply.status_code = OK /\ Contains(TheReply.text, NotAuthorized))
          => ret.kind = "AuthError"
       /\ TheReply.status_code # OK => ret.kind = "ScrapingError"

\* the marker is in the middle of a body sent with status 200
C1_Witness ==
    /\ PageCall
    /\ TheReply.kind = "response"
    /\ TheReply.status_code = OK
    /\ Len(TheReply.text) > Len(NotAuthorized)
    /\ TheReply.text[1] = "x"
    /\ Contains(TheReply.text, NotAuthorized)
    /\ ret.kind = "AuthError"

-----------------------------------------------------------------------------
(* Record assembler and field parsers *)

RecordCall == ret.op = "get_residency_info"

RequiredSections == {10, 17, 19, 27}

\* a value of a record that the page has no source for is the empty string
AbsentFieldsEmpty(info) ==
    /\ ~Contains(source, <<"Program Name:">>) => info.name = <<>>
    /\ ~Contains(source, <<"State/Providence:">>) => info.state = <<>>
    /\ ~Contains(source, <<"City:">>) => info.city = <<>>
    /\ ~Contains(source, <<"Last Updated: ">>) => info.last_updated = <<>>
    /\ \A k \in 1..4 : 2 * k - 1 > Len(bolded) => info.salary[k] = <<>>
    /\ \A k \in 1..4 : 2 * k > Len(bolded) => info.pto[k] = <<>>

\* C8: if any of the sections 10, 17, 19, 27 cannot be located,
\* get_residency_info raises and returns no record; if all are located it
\* returns a record, in which every absent labelled field is the empty string.
C8_AllOrNothing ==
    RecordCall =>
        IF \E n \in RequiredSections : ~SectionLocated(source, n)
        THEN ret.kind = "ScrapingError"
        ELSE ret.kind = "ok" /\ AbsentFieldsEmpty(ret.value)

Odd(vals) == <<vals[1], vals[3], vals[5], vals[7]>>
Even(vals) == <<vals[2], vals[4], vals[6], vals[8]>>

\* C9: for every page whose section 10 holds 8 bolded values v1..v8,
\* scrape_salary returns [v1, v3, v5, v7] and scrape_pto returns
\* [v2, v4, v6, v8], also as the salary and pto of the assembled record.
C9_SalaryOddPtoEven ==
    (Len(bolded) = 8 /\ SectionLocated(source, 10)) =>
        /\ ret.op = "scrape_salary" => ret.kind = "ok" /\ ret.value = Odd(bolded)
        /\ ret.op = "scrape_pto" => ret.kind = "ok" /\ ret.value = Even(bolded)
        /\ (RecordCall /\ ret.kind = "ok") =>
              ret.value.salary = Odd(bolded) /\ ret.value.pto = Even(bolded)

\* the record of the page with the eight distinct sample values
C9_Witness ==
    /\ RecordCall
    /\ bolded = SampleCompensation
    /\ SectionLocated(source, 10)
    /\ ret.kind = "ok"
    /\ ret.value.salary = <<<<"50000">>, <<"52000">>, <<"54000">>, <<"56000">>>>
    /\ ret.value.pto = <<<<"10">>, <<"12">>, <<"14">>, <<"16">>>>

-----------------------------------------------------------------------------
(* Driver *)

\* the behaviour of the site for identifier id
Behaviour(id) == site[((id - 1) % Len(site)) + 1]

Returned == pc \in {"csv", "done"}

AllIds == [k \in 1..(LAST_ID - 1) |-> k]
IsEntry(id) == Behaviour(id).kind = "entry"

\* C6: when every identifier of the range answers "Not Authorized", raises
\* a connection error or is a well-formed page, scrape() returns one record
\* per identifier with a well-formed page, in ascending identifier order.
C6_OneRecordPerWellFormedPage ==
    (Returned /\ \A i \in DOMAIN site : site[i] \in Outcomes) =>
        LET good == SelectSeq(AllIds, IsEntry)
        IN  /\ Len(all_residency_info) = Len(good)
            /\ \A k \in 1..Len(good) :
                  all_residency_info[k].name = <<"Program ">> \o IntToStr(good[k])

\* a finished run over a site with all three outcomes
C6_Witness ==
    /\ pc = "done"
    /\ {site[i] : i \in DOMAIN site} = Outcomes
    /\ Len(all_residency_info) > 1
    /\ Len(csvfile) = Len(all_residency_info) + 1

\* C7: whatever a fetch does, the driver goes on to every identifier of
\* range(1, 287), terminates, and hands its records to the output step:
\* the run is never left early.
C7_NoFailureIsFatal ==
    /\ pc # "aborted"
    /\ Returned => Len(fetched) = LAST_ID - 1

Skipped == {"ReadTimeout", "ConnectTimeout"}

\* the body of the loop is about to run for an identifier of this behaviour
AtId(kinds) == pc = "loop" /\ id_ < LAST_ID /\ Behaviour(id_).kind \in kinds

\* the pass of the loop prints tag, appends no record, and goes on
SkipsWith(tag) ==
    /\ printed' = Append(printed, tag)
    /\ all_residency_info' = all_residency_info
    /\ id_' = id_ + 1
    /\ pc' = "loop"

\* a request is made for the identifier of the loop only, never again
FetchedOnce ==
    fetched' # fetched =>
        /\ fetched' = Append(fetched, id_)
        /\ \A k \in 1..Len(fetched) : fetched[k] < id_

\* C10 as claimed: a timeout of the request, while connecting or while
\* reading, is skipped like AuthError (SKIP, no record, on to the next
\* identifier), and no identifier is fetched twice.
C10_TimeoutsAreSkipped ==
    [][/\ AtId(Skipped) => SkipsWith("SKIP")
       /\ FetchedOnce]_vars

\* C10 amended: a timeout that requests raises as ReadTimeout is skipped
\* like AuthError (SKIP, no record, on to the next identifier); one that it
\* raises as ConnectTimeout, a ConnectionError, is reported FAIL, also with
\* no record and on to the next identifier; no identifier is fetched twice.
C10_ReadTimeoutsAreSkipped ==
    [][/\ AtId({"ReadTimeout"}) => SkipsWith("SKIP")
       /\ (AtId({"response"}) /\ Behaviour(id_) = Response(OK, NotAuthorized))
          => SkipsWith("SKIP")
       /\ AtId({"ConnectTimeout"}) => SkipsWith("FAIL")
       /\ FetchedOnce]_vars

\* a read timeout was skipped right after a connect timeout failed
C10_Witness ==
    /\ pc = "loop"
    /\ id_ > 2
    /\ Behaviour(id_ - 1).kind = "ReadTimeout"
    /\ Behaviour(id_ - 2).kind = "ConnectTimeout"
    /\ printed[id_ - 1] = "SKIP"
    /\ printed[id_ - 2] = "FAIL"
    /\ Len(fetched) = id_ - 1

=============================================================================
